---- MODULE Spec2Model ----
(***************************************************************************)
(* A model of src/util.c of APSW: the GIL / database-mutex call macros,    *)
(* the inuse guard, the unraisable-exception dispatcher, the value         *)
(* conversion and the call tracking macros.                                *)
(*                                                                         *)
(* The module holds four state machines over disjoint groups of variables. *)
(* Each has its own specification; a specification leaves the variables of *)
(* the other machines at their parked values.                              *)
(*   Spec            the call macros driven by NumThreads threads          *)
(*   FairSpec        Spec with the fairness of the thread scheduler        *)
(*   SpecUnraisable  apsw_write_unraisable                                 *)
(*   SpecConvert     convert_value_to_pyobject, its _not_in variant and    *)
(*                   convert_column_to_pyobject                            *)
(*   SpecCalls       Spec together with convert_column_to_pyobject: every  *)
(*                   use of _PYSQLITE_CALL_V and _PYSQLITE_CALL_E          *)
(*   SpecTrack       CALL_ENTER / CALL_LEAVE / CALL_CHECK                  *)
(***************************************************************************)
EXTENDS Integers, Sequences, FiniteSets, TLC

(***************************************************************************)
(* Bounds                                                                  *)
(***************************************************************************)
NumThreads == 2
NumObjs == 3

Threads == 1..NumThreads
Objs == 1..NumObjs

VARIABLES
  \* ---- call macros (lines 33-87, 355-364)
  gil,          \* thread holding the GIL, 0 when nobody does
  mutex,        \* per database: thread holding sqlite3_db_mutex(db), 0 when free
  inuse,        \* per object: self->inuse
  db_errmsg,    \* per database: what sqlite3_errmsg(db) returns now
  tls_errmsg,   \* per thread: the text stored by apsw_set_errmsg
  pc,           \* per thread: position in the operation
  obj,          \* per thread: self of the running operation, 0 when idle
  kind,         \* per thread: "void" or "checked" (which macro the operation uses)
  res,          \* per thread: the local variable res
  exc,          \* per thread: the Python error indicator CHECK_USE leaves
  entry_exc,    \* per thread: the Python error indicator CHECK_USE found
  outcome,      \* per thread: "none", "rejected" (CHECK_USE returned e) or "completed"
  gil_dropped,  \* per thread: the operation released the GIL at least once
  captured,     \* per thread: number of apsw_set_errmsg calls of the operation
  assert_failed, \* an assert() of INUSE_CALL failed
  \* ---- apsw_write_unraisable (lines 125-233)
  ustack,       \* the running invocations of apsw_write_unraisable, innermost last
  pyerr,        \* the error indicator of the thread (PyErr_Occurred)
  depth,        \* the interpreter's recursion depth (Py_EnterRecursiveCall)
  sys_unraisablehook, \* PySys_GetObject("unraisablehook") finds a hook
  sys_excepthook,     \* PySys_GetObject("excepthook") finds a hook
  \* ---- call tracking (lines 433-451), for one object
  in_call,      \* per name: self->in_call##name, 0 (NULL) or a stack address
  cstack,       \* the C stack: the callbacks that have not returned, innermost last
  mem,          \* per stack address: the int last stored there
  track_assert, \* an assert() of CALL_ENTER failed
  misuse,       \* some callback returned without CALL_LEAVE
  \* ---- convert_value_to_pyobject (lines 237-297)
  cv_pc,        \* position in the function, "idle" when it is not running
  cv_value,     \* the argument value
  cv_inc,       \* the argument in_constraint_possible
  cv_nc,        \* the argument no_change_possible
  cv_idx,       \* in_value: the position in the IN list, 0 for NULL
  cv_set,       \* the elements of the local set
  cv_v,         \* the local v
  cv_result,    \* what the function returns
  cv_exc,       \* the exception the function leaves pending
  cv_fault,     \* what failed during the call, "none" when nothing did
  cv_freed,     \* the locals released on the error path
  cv_fn,        \* the function that was called
  cv_acc,       \* convert_column_to_pyobject: the accessor inside _PYSQLITE_CALL_V
  cv_gil,       \* the thread running the function holds the GIL
  cv_native     \* the SQLite calls the function has made and how it made them

bridgeVars == <<gil, mutex, inuse, db_errmsg, tls_errmsg, pc, obj, kind, res,
                exc, entry_exc, outcome, gil_dropped, captured, assert_failed>>

\* self->connection->db, self->db, self->dest->db: objects 1 and 2 are two
\* cursors/blobs of one connection, later objects belong to a second one
DbOf(o) == IF o <= 2 THEN 1 ELSE 2
Dbs == {DbOf(o) : o \in Objs}

ResultCodes == {"OK", "ROW", "DONE", "ERROR"}
\* An error text is named by the thread whose failing SQLite call produced
\* it; NoMsg is the text of a connection or thread that has none yet.
NoMsg == 0
NativeMsg(t) == t

\* what PyErr_Occurred() can find when an operation is called
Pending == {"none", "Other"}

\* a test of res that takes SQLITE_ROW for an error
IsErrorCode_RowIsError(r) == r # "OK" /\ r # "DONE"

\* res != SQLITE_OK && res != SQLITE_DONE && res != SQLITE_ROW
IsErrorCode(r) == r # "OK" /\ r # "DONE" /\ r # "ROW"

unrVars == <<ustack, pyerr, depth, sys_unraisablehook, sys_excepthook>>

trackVars == <<in_call, cstack, mem, track_assert, misuse>>

convVars == <<cv_pc, cv_value, cv_inc, cv_nc, cv_idx, cv_set, cv_v, cv_result,
              cv_exc, cv_fault, cv_freed, cv_fn, cv_acc, cv_gil, cv_native>>

\* the variables of the other machines
nonBridgeVars == <<unrVars, trackVars, convVars>>
nonUnrVars == <<bridgeVars, trackVars, convVars>>
nonTrackVars == <<bridgeVars, unrVars, convVars>>
nonConvVars == <<bridgeVars, unrVars, trackVars>>

\* the dispatcher at rest
UnrParked ==
  /\ ustack = <<>>
  /\ pyerr = 0
  /\ depth = 0
  /\ sys_unraisablehook = FALSE
  /\ sys_excepthook = FALSE

\* ---- call tracking
MaxCallDepth == 3

\* some arbitrary magic numbers for call track
MAGIC_xConnect == 8557995
MAGIC_xUpdate == 294848188
\* what a stack address holds before anything of the model is stored there
Uninit == 0

Names == {"xConnect", "xUpdate"}
MAGIC(name) == IF name = "xConnect" THEN MAGIC_xConnect ELSE MAGIC_xUpdate
Addrs == 1..MaxCallDepth

\* CALL_TRACK_INIT(name) for every name, and an empty stack
TrackInit ==
  /\ in_call = [n \in Names |-> 0]
  /\ cstack = <<>>
  /\ mem = [a \in Addrs |-> Uninit]
  /\ track_assert = FALSE
  /\ misuse = FALSE

\* ---- value conversion
MaxListLen == 4

\* A sqlite3_value: its sqlite3_value_type, its content (a small number
\* stands for the integer, the double, the text or the bytes), what
\* sqlite3_value_nochange says, and whether it is the head of the right-hand
\* side of an IN constraint (sqlite3_vtab_in_first accepts it) with the
\* values of that list.
SqlValue(type, data, nochange, islist, list) ==
  [type |-> type, data |-> data, nochange |-> nochange, islist |-> islist,
   list |-> list]

Plain(type, data) == SqlValue(type, data, FALSE, FALSE, <<>>)

\* the values an IN list is made of
Elements ==
  {Plain("INTEGER", 1), Plain("FLOAT", 1), Plain("TEXT", 1), Plain("BLOB", 1),
   Plain("NULL", 0)}

RECURSIVE ListsOf(_)
ListsOf(n) ==
  IF n = 0 THEN {<<>>}
  ELSE LET shorter == ListsOf(n - 1)
       IN shorter \cup {Append(l, e) : l \in {x \in shorter : Len(x) = n - 1},
                                       e \in Elements}

\* the values the function is called with.  SQLite shows an unchanged
\* column of xUpdate and the head of an IN list as NULL values.
Values ==
  Elements
  \cup {SqlValue("NULL", 0, TRUE, FALSE, <<>>)}
  \cup {SqlValue("NULL", 0, FALSE, TRUE, l) : l \in ListsOf(MaxListLen)}

\* Python objects
PyObj(py, v) == [py |-> py, v |-> v]
PyNULL == PyObj("NULL", 0)
Py_None == PyObj("None", 0)
apsw_no_change_object == PyObj("no_change", 0)
PySetResult == PyObj("set", 0)

\* the function is not running
ConvIdle ==
  /\ cv_pc = "idle"
  /\ cv_value = Plain("NULL", 0)
  /\ cv_inc = FALSE
  /\ cv_nc = FALSE
  /\ cv_idx = 0
  /\ cv_set = {}
  /\ cv_v = PyNULL
  /\ cv_result = PyNULL
  /\ cv_exc = "none"
  /\ cv_fault = "none"
  /\ cv_freed = {}
  /\ cv_fn = "none"
  /\ cv_acc = "none"
  /\ cv_gil = FALSE
  /\ cv_native = {}

(***************************************************************************)
(* The call macros.  An operation on a wrapped object is                   *)
(*     CHECK_USE(e); PYSQLITE_xxx_CALL(x); return                          *)
(* where PYSQLITE_VOID_CALL is INUSE_CALL(_PYSQLITE_CALL_V(x)) and the     *)
(* BLOB/CON/CUR/BACKUP calls are INUSE_CALL(_PYSQLITE_CALL_E(db, x)).      *)
(* Each thread walks the statements of the expanded macros; pc names the   *)
(* statement it executes next.                                             *)
(***************************************************************************)
BridgeInit ==
  /\ gil = 0
  /\ mutex = [d \in Dbs |-> 0]
  /\ inuse = [o \in Objs |-> FALSE]
  /\ db_errmsg = [d \in Dbs |-> NoMsg]
  /\ tls_errmsg = [t \in Threads |-> NoMsg]
  /\ pc = [t \in Threads |-> "idle"]
  /\ obj = [t \in Threads |-> 0]
  /\ kind = [t \in Threads |-> "none"]
  /\ res = [t \in Threads |-> "unset"]
  /\ exc = [t \in Threads |-> "none"]
  /\ entry_exc = [t \in Threads |-> "none"]
  /\ outcome = [t \in Threads |-> "none"]
  /\ gil_dropped = [t \in Threads |-> FALSE]
  /\ captured = [t \in Threads |-> 0]
  /\ assert_failed = FALSE

\* the statement after statement p of _PYSQLITE_CALL_V (the macro is left
\* for INUSE_CALL's closing statements after Py_END_ALLOW_THREADS)
PYSQLITE_CALL_V(p) ==
  CASE p = "allow_begin" -> "native"
    [] p = "native" -> "allow_end"
    [] p = "allow_end" -> "inuse_clear"

\* a _PYSQLITE_CALL_E that reads the error text after leaving the mutex
PYSQLITE_CALL_E_LateErrmsg(p, r) ==
  CASE p = "allow_begin" -> "mutex_enter"
    [] p = "mutex_enter" -> "native"
    [] p = "native" -> "mutex_leave"
    [] p = "mutex_leave" -> IF IsErrorCode(r) THEN "errmsg" ELSE "allow_end"
    [] p = "errmsg" -> "allow_end"
    [] p = "allow_end" -> "inuse_clear"

\* a _PYSQLITE_CALL_E that takes the GIL back before leaving the mutex
PYSQLITE_CALL_E_LateLeave(p, r) ==
  CASE p = "allow_begin" -> "mutex_enter"
    [] p = "mutex_enter" -> "native"
    [] p = "native" -> IF IsErrorCode(r) THEN "errmsg" ELSE "allow_end"
    [] p = "errmsg" -> "allow_end"
    [] p = "allow_end" -> "mutex_leave"
    [] p = "mutex_leave" -> "inuse_clear"

\* a _PYSQLITE_CALL_E that copies the error text whatever res is
PYSQLITE_CALL_E_AlwaysErrmsg(p, r) ==
  CASE p = "allow_begin" -> "mutex_enter"
    [] p = "mutex_enter" -> "native"
    [] p = "native" -> "errmsg"
    [] p = "errmsg" -> "mutex_leave"
    [] p = "mutex_leave" -> "allow_end"
    [] p = "allow_end" -> "inuse_clear"

\* the statement after statement p of _PYSQLITE_CALL_E, r being res
PYSQLITE_CALL_E(p, r) ==
  CASE p = "allow_begin" -> "mutex_enter"
    [] p = "mutex_enter" -> "native"
    [] p = "native" -> IF IsErrorCode(r) THEN "errmsg" ELSE "mutex_leave"
    [] p = "errmsg" -> "mutex_leave"
    [] p = "mutex_leave" -> "allow_end"
    [] p = "allow_end" -> "inuse_clear"

\* the statement thread t executes after the one it is at, r being res
NextStmt(t, r) ==
  IF kind[t] = "checked" THEN PYSQLITE_CALL_E(pc[t], r) ELSE PYSQLITE_CALL_V(pc[t])

\* A thread running Python code holds the GIL: the interpreter gives it to
\* thread t, which calls a method of object o.
Begin(t, o, k) ==
  /\ pc[t] = "idle"
  /\ gil = 0
  /\ gil' = t
  /\ pc' = [pc EXCEPT ![t] = "check_use"]
  /\ obj' = [obj EXCEPT ![t] = o]
  /\ kind' = [kind EXCEPT ![t] = k]
  /\ UNCHANGED <<mutex, inuse, db_errmsg, tls_errmsg, res, exc, entry_exc, outcome,
                 gil_dropped, captured, assert_failed>>
  /\ UNCHANGED nonBridgeVars

\* a CHECK_USE that never rejects
CHECK_USE_Absent(t, e) ==
  /\ pc[t] = "check_use"
  /\ gil = t
  /\ pc' = [pc EXCEPT ![t] = "inuse_set"]
  /\ UNCHANGED <<gil, mutex, inuse, db_errmsg, tls_errmsg, obj, kind, res, exc,
                 entry_exc, outcome, gil_dropped, captured, assert_failed>>
  /\ UNCHANGED nonBridgeVars

\* a CHECK_USE that raises ThreadingViolation over a pending exception
CHECK_USE_Overwrites(t, e) ==
  /\ pc[t] = "check_use"
  /\ gil = t
  /\ IF inuse[obj[t]]
       THEN /\ entry_exc' = [entry_exc EXCEPT ![t] = e]
            /\ exc' = [exc EXCEPT ![t] = "ThreadingViolation"]
            /\ outcome' = [outcome EXCEPT ![t] = "rejected"]
            /\ pc' = [pc EXCEPT ![t] = "returned"]
       ELSE /\ pc' = [pc EXCEPT ![t] = "inuse_set"]
            /\ UNCHANGED <<exc, entry_exc, outcome>>
  /\ UNCHANGED <<gil, mutex, inuse, db_errmsg, tls_errmsg, obj, kind, res,
                 gil_dropped, captured, assert_failed>>
  /\ UNCHANGED nonBridgeVars

\* CHECK_USE(e).  e is what PyErr_Occurred() finds: "none", or an exception
\* that was already pending when the operation was called.
CHECK_USE(t, e) ==
  /\ pc[t] = "check_use"
  /\ gil = t
  /\ IF inuse[obj[t]]
       THEN /\ entry_exc' = [entry_exc EXCEPT ![t] = e]
            /\ exc' = [exc EXCEPT ![t] = IF e = "none" THEN "ThreadingViolation" ELSE e]
            /\ outcome' = [outcome EXCEPT ![t] = "rejected"]
            /\ pc' = [pc EXCEPT ![t] = "returned"]
       ELSE /\ pc' = [pc EXCEPT ![t] = "inuse_set"]
            /\ UNCHANGED <<exc, entry_exc, outcome>>
  /\ UNCHANGED <<gil, mutex, inuse, db_errmsg, tls_errmsg, obj, kind, res,
                 gil_dropped, captured, assert_failed>>
  /\ UNCHANGED nonBridgeVars

\* INUSE_CALL: assert(self->inuse == 0); self->inuse = 1;
InuseSet(t) ==
  /\ pc[t] = "inuse_set"
  /\ gil = t
  /\ assert_failed' = (assert_failed \/ inuse[obj[t]])
  /\ inuse' = [inuse EXCEPT ![obj[t]] = TRUE]
  /\ pc' = [pc EXCEPT ![t] = "allow_begin"]
  /\ UNCHANGED <<gil, mutex, db_errmsg, tls_errmsg, obj, kind, res, exc, entry_exc,
                 outcome, gil_dropped, captured>>
  /\ UNCHANGED nonBridgeVars

\* a Py_BEGIN_ALLOW_THREADS that keeps the GIL
BeginAllowThreads_KeepGil(t) ==
  /\ pc[t] = "allow_begin"
  /\ gil = t
  /\ pc' = [pc EXCEPT ![t] = NextStmt(t, res[t])]
  /\ UNCHANGED <<gil, mutex, inuse, db_errmsg, tls_errmsg, obj, kind, res, exc,
                 entry_exc, outcome, gil_dropped, captured, assert_failed>>
  /\ UNCHANGED nonBridgeVars

\* Py_BEGIN_ALLOW_THREADS
BeginAllowThreads(t) ==
  /\ pc[t] = "allow_begin"
  /\ gil = t
  /\ gil' = 0
  /\ gil_dropped' = [gil_dropped EXCEPT ![t] = TRUE]
  /\ pc' = [pc EXCEPT ![t] = NextStmt(t, res[t])]
  /\ UNCHANGED <<mutex, inuse, db_errmsg, tls_errmsg, obj, kind, res, exc,
                 entry_exc, outcome, captured, assert_failed>>
  /\ UNCHANGED nonBridgeVars

\* sqlite3_mutex_enter(sqlite3_db_mutex(db)): blocks while another thread holds it
MutexEnter(t) ==
  /\ pc[t] = "mutex_enter"
  /\ mutex[DbOf(obj[t])] = 0
  /\ mutex' = [mutex EXCEPT ![DbOf(obj[t])] = t]
  /\ pc' = [pc EXCEPT ![t] = NextStmt(t, res[t])]
  /\ UNCHANGED <<gil, inuse, db_errmsg, tls_errmsg, obj, kind, res, exc, entry_exc,
                 outcome, gil_dropped, captured, assert_failed>>
  /\ UNCHANGED nonBridgeVars

\* x of _PYSQLITE_CALL_E: the SQLite call sets res; SQLite takes the database
\* mutex itself (it is recursive) and a failing call leaves its message on
\* the connection
NativeE(t, r) ==
  /\ pc[t] = "native"
  /\ kind[t] = "checked"
  /\ mutex[DbOf(obj[t])] \in {0, t}
  /\ res' = [res EXCEPT ![t] = r]
  /\ db_errmsg' = IF IsErrorCode(r)
                    THEN [db_errmsg EXCEPT ![DbOf(obj[t])] = NativeMsg(t)]
                    ELSE db_errmsg
  /\ pc' = [pc EXCEPT ![t] = NextStmt(t, r)]
  /\ UNCHANGED <<gil, mutex, inuse, tls_errmsg, obj, kind, exc, entry_exc, outcome,
                 gil_dropped, captured, assert_failed>>
  /\ UNCHANGED nonBridgeVars

\* x of _PYSQLITE_CALL_V: the SQLite call takes and releases the database
\* mutex inside, so it waits while another thread holds it; no result code
\* is looked at, but a call that fails inside (f) replaces the error text of
\* the connection
NativeV(t, f) ==
  /\ pc[t] = "native"
  /\ kind[t] = "void"
  /\ mutex[DbOf(obj[t])] = 0
  /\ db_errmsg' = IF f THEN [db_errmsg EXCEPT ![DbOf(obj[t])] = NativeMsg(t)]
                       ELSE db_errmsg
  /\ pc' = [pc EXCEPT ![t] = NextStmt(t, res[t])]
  /\ UNCHANGED <<gil, mutex, inuse, tls_errmsg, obj, kind, res, exc,
                 entry_exc, outcome, gil_dropped, captured, assert_failed>>
  /\ UNCHANGED nonBridgeVars

\* apsw_set_errmsg(msg): stores a copy of msg for the calling thread
apsw_set_errmsg(t, msg) == [tls_errmsg EXCEPT ![t] = msg]

\* apsw_set_errmsg(sqlite3_errmsg((db)))
SetErrmsg(t) ==
  /\ pc[t] = "errmsg"
  /\ tls_errmsg' = apsw_set_errmsg(t, db_errmsg[DbOf(obj[t])])
  /\ captured' = [captured EXCEPT ![t] = @ + 1]
  /\ pc' = [pc EXCEPT ![t] = NextStmt(t, res[t])]
  /\ UNCHANGED <<gil, mutex, inuse, db_errmsg, obj, kind, res, exc, entry_exc,
                 outcome, gil_dropped, assert_failed>>
  /\ UNCHANGED nonBridgeVars

\* sqlite3_mutex_leave(sqlite3_db_mutex(db))
MutexLeave(t) ==
  /\ pc[t] = "mutex_leave"
  /\ mutex' = [mutex EXCEPT ![DbOf(obj[t])] = 0]
  /\ pc' = [pc EXCEPT ![t] = NextStmt(t, res[t])]
  /\ UNCHANGED <<gil, inuse, db_errmsg, tls_errmsg, obj, kind, res, exc, entry_exc,
                 outcome, gil_dropped, captured, assert_failed>>
  /\ UNCHANGED nonBridgeVars

\* Py_END_ALLOW_THREADS: blocks until the GIL is free
EndAllowThreads(t) ==
  /\ pc[t] = "allow_end"
  /\ gil = 0
  /\ gil' = t
  /\ pc' = [pc EXCEPT ![t] = NextStmt(t, res[t])]
  /\ UNCHANGED <<mutex, inuse, db_errmsg, tls_errmsg, obj, kind, res, exc,
                 entry_exc, outcome, gil_dropped, captured, assert_failed>>
  /\ UNCHANGED nonBridgeVars

\* an INUSE_CALL that leaves the flag set when the block produced an error
InuseClear_OnSuccess(t) ==
  /\ pc[t] = "inuse_clear"
  /\ assert_failed' = (assert_failed \/ ~inuse[obj[t]])
  /\ inuse' = [inuse EXCEPT ![obj[t]] = IsErrorCode(res[t])]
  /\ outcome' = [outcome EXCEPT ![t] = "completed"]
  /\ pc' = [pc EXCEPT ![t] = "returned"]
  /\ UNCHANGED <<gil, mutex, db_errmsg, tls_errmsg, obj, kind, res, exc, entry_exc,
                 gil_dropped, captured>>
  /\ UNCHANGED nonBridgeVars

\* INUSE_CALL: assert(self->inuse == 1); self->inuse = 0;
InuseClear(t) ==
  /\ pc[t] = "inuse_clear"
  /\ assert_failed' = (assert_failed \/ ~inuse[obj[t]])
  /\ inuse' = [inuse EXCEPT ![obj[t]] = FALSE]
  /\ outcome' = [outcome EXCEPT ![t] = "completed"]
  /\ pc' = [pc EXCEPT ![t] = "returned"]
  /\ UNCHANGED <<gil, mutex, db_errmsg, tls_errmsg, obj, kind, res, exc, entry_exc,
                 gil_dropped, captured>>
  /\ UNCHANGED nonBridgeVars

\* the operation returns to the interpreter, which may then run another
\* thread; the locals of the operation go away
Return(t) ==
  /\ pc[t] = "returned"
  /\ gil' = IF gil = t THEN 0 ELSE gil
  /\ pc' = [pc EXCEPT ![t] = "idle"]
  /\ obj' = [obj EXCEPT ![t] = 0]
  /\ kind' = [kind EXCEPT ![t] = "none"]
  /\ res' = [res EXCEPT ![t] = "unset"]
  /\ exc' = [exc EXCEPT ![t] = "none"]
  /\ entry_exc' = [entry_exc EXCEPT ![t] = "none"]
  /\ outcome' = [outcome EXCEPT ![t] = "none"]
  /\ gil_dropped' = [gil_dropped EXCEPT ![t] = FALSE]
  /\ captured' = [captured EXCEPT ![t] = 0]
  /\ UNCHANGED <<mutex, inuse, db_errmsg, tls_errmsg, assert_failed>>
  /\ UNCHANGED nonBridgeVars

\* the statements of thread t once its operation has started
Step(t) ==
  \/ \E e \in Pending : CHECK_USE(t, e)
  \/ InuseSet(t)
  \/ BeginAllowThreads(t)
  \/ MutexEnter(t)
  \/ \E r \in ResultCodes : NativeE(t, r)
  \/ \E f \in BOOLEAN : NativeV(t, f)
  \/ SetErrmsg(t)
  \/ MutexLeave(t)
  \/ EndAllowThreads(t)
  \/ InuseClear(t)
  \/ Return(t)

vars == <<bridgeVars, nonBridgeVars>>

Init == BridgeInit /\ UnrParked /\ TrackInit /\ ConvIdle

Next ==
  \/ \E t \in Threads, o \in Objs, k \in {"void", "checked"} : Begin(t, o, k)
  \/ \E t \in Threads, e \in Pending : CHECK_USE(t, e)
  \/ \E t \in Threads : InuseSet(t)
  \/ \E t \in Threads : BeginAllowThreads(t)
  \/ \E t \in Threads : MutexEnter(t)
  \/ \E t \in Threads, r \in ResultCodes : NativeE(t, r)
  \/ \E t \in Threads, f \in BOOLEAN : NativeV(t, f)
  \/ \E t \in Threads : SetErrmsg(t)
  \/ \E t \in Threads : MutexLeave(t)
  \/ \E t \in Threads : EndAllowThreads(t)
  \/ \E t \in Threads : InuseClear(t)
  \/ \E t \in Threads : Return(t)

Spec == Init /\ [][Next]_vars

\* The scheduler: a thread whose next statement can run again and again
\* (a statement that needs no lock always can; one that waits for the GIL
\* or for a mutex can whenever the lock is free) eventually runs it.
\* Nothing obliges a thread to start an operation.
FairSpec == Spec /\ \A t \in Threads : SF_vars(Step(t))

(***************************************************************************)
(* Claims about the call macros                                            *)
(***************************************************************************)
\* thread t is inside the block INUSE_CALL guards
InFlight(t) ==
  pc[t] \in {"allow_begin", "mutex_enter", "native", "errmsg", "mutex_leave",
             "allow_end", "inuse_clear"}

Rejected(t) == pc[t] = "returned" /\ outcome[t] = "rejected"
Completed(t) == pc[t] = "returned" /\ outcome[t] = "completed"

\* what C1 says apart from the kind of the error
C1_Exclusion ==
  /\ \A t1, t2 \in Threads :
       (t1 # t2 /\ InFlight(t1) /\ InFlight(t2)) => obj[t1] # obj[t2]
  /\ \A t1, t2 \in Threads :
       (pc[t1] = "inuse_set" /\ InFlight(t2)) => obj[t1] # obj[t2]
  /\ \A t \in Threads : InFlight(t) => inuse[obj[t]]
  /\ ~assert_failed
  /\ \A t \in Threads : Rejected(t) => (~gil_dropped[t] /\ res[t] = "unset" /\ gil = t)
  /\ \A t \in Threads :
       Completed(t) => (kind[t] = "checked" => res[t] \in ResultCodes)

\* C1 as stated: at most one call is in flight on an object, an overlapping
\* call fails at once with ThreadingViolation, and the first call completes
\* with its own result.
C1_Original ==
  /\ C1_Exclusion
  /\ \A t \in Threads : Rejected(t) => exc[t] = "ThreadingViolation"

\* C1 as amended: at most one call is in flight on an object; an overlapping
\* call fails at once, without releasing the GIL or calling SQLite, with
\* ThreadingViolation when no exception was pending and with the exception
\* that was already pending otherwise; the first call completes with its own
\* result.
C1_OneCallInFlight ==
  /\ C1_Exclusion
  /\ \A t \in Threads :
       Rejected(t) =>
         exc[t] = (IF entry_exc[t] = "none" THEN "ThreadingViolation" ELSE entry_exc[t])

\* a call was rejected with ThreadingViolation while another thread is in
\* flight on the same object with the GIL released
C1_Witness ==
  \E t1, t2 \in Threads :
    /\ Rejected(t1) /\ exc[t1] = "ThreadingViolation"
    /\ InFlight(t2) /\ obj[t2] = obj[t1] /\ gil_dropped[t2]

\* C2: no thread holds the GIL and a database mutex at the same time.
C2_NeverBothLocks ==
  \A t \in Threads, d \in Dbs : ~(gil = t /\ mutex[d] = t)

\* a thread is inside a checked call holding the database mutex while
\* another thread holds the GIL
C2_Witness ==
  \E t1, t2 \in Threads :
    /\ t1 # t2
    /\ pc[t1] = "mutex_leave" /\ mutex[DbOf(obj[t1])] = t1
    /\ gil = t2

\* C3: when a failing checked call returns, the error text its thread has
\* captured is the text of its own SQLite call.
C3_OwnErrorText ==
  \A t \in Threads :
    (Completed(t) /\ kind[t] = "checked" /\ IsErrorCode(res[t]))
      => tls_errmsg[t] = NativeMsg(t)

\* two threads have failed on different objects of one connection: one has
\* returned with its text while the connection already holds the other's
C3_Witness ==
  \E t1, t2 \in Threads :
    /\ t1 # t2 /\ obj[t1] # obj[t2] /\ DbOf(obj[t1]) = DbOf(obj[t2])
    /\ Completed(t1) /\ kind[t1] = "checked" /\ IsErrorCode(res[t1])
    /\ kind[t2] = "checked" /\ IsErrorCode(res[t2]) /\ pc[t2] = "allow_end"
    /\ db_errmsg[DbOf(obj[t1])] = NativeMsg(t2)
    /\ tls_errmsg[t2] = NativeMsg(t2)

\* some operation is running and no thread can execute a statement
Deadlocked ==
  /\ \E t \in Threads : pc[t] # "idle"
  /\ \A t \in Threads : ~ENABLED Step(t)

\* C9: no reachable state is a deadlock on the GIL and the database
\* mutexes, and under fair scheduling every started call gets the GIL back
\* and returns.
C9_NoDeadlockAndReturns ==
  /\ []~Deadlocked
  /\ \A t \in Threads : (pc[t] # "idle") ~> (pc[t] = "returned" /\ gil = t)

\* a thread that has released the GIL waits for a database mutex that
\* another thread holds inside its own checked call
C9_Witness ==
  \E t1, t2 \in Threads :
    /\ t1 # t2
    /\ pc[t1] = "mutex_enter" /\ mutex[DbOf(obj[t1])] = t2 /\ gil # t1
    /\ pc[t2] = "native"


\* thread t is in a checked call and past the place of the capture
PastCapture(t) ==
  /\ kind[t] = "checked"
  /\ \/ pc[t] \in {"mutex_leave", "allow_end", "inuse_clear"}
     \/ Completed(t)

\* C12: a checked call copies the error text if and only if res is none of
\* OK, DONE and ROW, at most once, and at the copy its thread holds the
\* database mutex and not the GIL; a void call never copies it.
C12_CaptureIffError ==
  \A t \in Threads :
    /\ captured[t] <= 1
    /\ PastCapture(t) => (captured[t] = 1 <=> res[t] \notin {"OK", "DONE", "ROW"})
    /\ (kind[t] = "void" \/ pc[t] \in {"allow_begin", "mutex_enter", "native", "errmsg"})
         => captured[t] = 0
    /\ pc[t] = "errmsg" => (mutex[DbOf(obj[t])] = t /\ gil # t)
    /\ (captured[t] = 1 /\ pc[t] = "mutex_leave") => (mutex[DbOf(obj[t])] = t /\ gil # t)

\* a failing checked call has just copied the error text: its thread still
\* holds the database mutex and another thread holds the GIL
C12_Witness ==
  \E t1, t2 \in Threads :
    /\ t1 # t2
    /\ pc[t1] = "mutex_leave" /\ captured[t1] = 1 /\ res[t1] = "ERROR"
    /\ mutex[DbOf(obj[t1])] = t1
    /\ gil = t2

\* C13 as stated: after a checked call has returned, successful or not, the
\* error text held for its thread is the one that call produced; a text of
\* an earlier call is never still there.
C13_Original ==
  \A t \in Threads :
    (Completed(t) /\ kind[t] = "checked")
      => (captured[t] = 1 \/ tls_errmsg[t] = NoMsg)

\* C13 as amended: a failing checked call replaces the error text held for
\* its thread by its own; a successful checked call and a void call leave
\* the text as it was.
C13_OverwrittenOnFailure ==
  \A t \in Threads :
    Completed(t) =>
      IF kind[t] = "checked" /\ IsErrorCode(res[t])
        THEN captured[t] = 1 /\ tls_errmsg[t] = NativeMsg(t)
        ELSE captured[t] = 0

\* a successful checked call has returned and the text of an earlier
\* failing call of the thread is still held
C13_Witness ==
  \E t \in Threads :
    /\ Completed(t) /\ kind[t] = "checked" /\ res[t] = "OK"
    /\ captured[t] = 0
    /\ tls_errmsg[t] = NativeMsg(t)


\* the threads inside the block INUSE_CALL guards on object o
InFlightOn(o) == {t \in Threads : InFlight(t) /\ obj[t] = o}

\* C14: the in-use flag of an object is set exactly while one guarded call
\* is in flight on it, whatever result the block produced; the assertions
\* of INUSE_CALL never fail, and CHECK_USE rejects a call only while
\* another call is in flight on its object.
C14_InuseIffInFlight ==
  /\ \A o \in Objs : inuse[o] <=> Cardinality(InFlightOn(o)) = 1
  /\ \A o \in Objs : Cardinality(InFlightOn(o)) <= 1
  /\ ~assert_failed
  /\ \A t \in Threads :
       (pc[t] = "check_use" /\ InFlightOn(obj[t]) = {}) => ~inuse[obj[t]]

\* a checked call has failed and returned and the flag of its object is
\* clear again, while the call of another thread is in flight on another
\* object whose flag is set
C14_Witness ==
  \E t1, t2 \in Threads :
    /\ t1 # t2 /\ obj[t1] # obj[t2]
    /\ Completed(t1) /\ kind[t1] = "checked" /\ IsErrorCode(res[t1])
    /\ ~inuse[obj[t1]]
    /\ InFlight(t2) /\ inuse[obj[t2]]


\* the step in which CHECK_USE rejects the call of thread t
Rejects(t) == pc[t] = "check_use" /\ pc'[t] = "returned"

\* C19: a call rejected by CHECK_USE has no other effect: the step that
\* rejects it changes no in-use flag, no lock and no error text, the flag
\* of its object is still set, the call has not released the GIL, taken a
\* mutex, called SQLite or copied an error text, and an exception that was
\* pending is kept.
C19_RejectionHasNoEffect ==
  /\ [](\A t \in Threads :
          Rejected(t) =>
            /\ inuse[obj[t]]
            /\ gil = t /\ ~gil_dropped[t]
            /\ \A d \in Dbs : mutex[d] # t
            /\ captured[t] = 0 /\ res[t] = "unset"
            /\ entry_exc[t] # "none" => exc[t] = entry_exc[t])
  /\ [][\A t \in Threads :
          Rejects(t) =>
            /\ UNCHANGED <<inuse, gil, mutex, db_errmsg, tls_errmsg, res,
                           assert_failed>>
            /\ \A u \in Threads \ {t} : pc'[u] = pc[u]]_vars

\* a call entered with an exception pending was rejected and still has that
\* exception, while the call it collided with is in flight with the GIL
\* released
C19_Witness ==
  \E t1, t2 \in Threads :
    /\ Rejected(t1) /\ entry_exc[t1] = "Other" /\ exc[t1] = "Other"
    /\ InFlight(t2) /\ obj[t2] = obj[t1] /\ gil_dropped[t2]
    /\ inuse[obj[t1]]

(***************************************************************************)
(* apsw_write_unraisable(hookobject).  ustack holds one frame for every    *)
(* invocation that has not returned: a hook the function calls runs Python *)
(* code, and that code can end up in apsw_write_unraisable again.          *)
(***************************************************************************)
RecursionLimit == 2

\* values of the error indicator: no error, the exceptions Python or a hook
\* sets, and for n > 0 the exception handed to the n-th nested invocation
NoError == 0
RecursionError == -1
HookError == -2
MemoryError == -3
GivenExc(level) == level

\* the steps of the comment at lines 95-101, in its order
Steps == <<"hookobject", "unraisablehook", "excepthook", "display">>
StepSet == {Steps[i] : i \in 1..Len(Steps)}
Rank(s) == CHOOSE i \in 1..Len(Steps) : Steps[i] = s

\* what hookobject can be: NULL, an object without an excepthook attribute,
\* an object with one
HookObjects == {"NULL", "no_excepthook", "excepthook"}

NewFrame(h) ==
  [pc |-> "fetch", hookobject |-> h, err |-> NoError, can_recurse |-> FALSE,
   logged |-> FALSE, cur |-> "none",
   st |-> [s \in StepSet |-> "none"], order |-> <<>>, shown |-> <<>>]

Top == ustack[Len(ustack)]
SetTop(fr) == [ustack EXCEPT ![Len(ustack)] = fr]
AtPc(p) == ustack # <<>> /\ Top.pc = p

\* a PyErr_Clear() that leaves the error indicator as it is
PyErr_Clear_Forgotten == pyerr

\* the error indicator after PyErr_Clear()
PyErr_Clear == NoError

\* where the function goes after a hook call that never stops at a success
AfterCall_FallThrough(s, ok) ==
  CASE s = "hookobject" -> "unraisablehook"
    [] s = "unraisablehook" -> "excepthook"
    [] s = "excepthook" -> "display"

\* where the function goes after the call of step s: if (result) goto
\* finally; otherwise on to the next step
AfterCall(s, ok) ==
  IF ok THEN "finally"
  ELSE CASE s = "hookobject" -> "unraisablehook"
         [] s = "unraisablehook" -> "excepthook"
         [] s = "excepthook" -> "display"

\* A callback SQLite invoked has raised and its caller calls
\* apsw_write_unraisable: the exception is pending (assert(PyErr_Occurred())),
\* the Python stack is d deep, and the sys hooks are as the program set them.
Dispatch(h, d, uh, eh) ==
  /\ ustack = <<>>
  /\ ustack' = <<NewFrame(h)>>
  /\ pyerr' = GivenExc(1)
  /\ depth' = d
  /\ sys_unraisablehook' = uh
  /\ sys_excepthook' = eh
  /\ UNCHANGED nonUnrVars

\* PyErr_Fetch(&err_type, &err_value, &err_traceback); PyErr_NormalizeException
Fetch ==
  /\ AtPc("fetch")
  /\ ustack' = SetTop([Top EXCEPT !.err = pyerr, !.pc = "enter"])
  /\ pyerr' = NoError
  /\ UNCHANGED <<depth, sys_unraisablehook, sys_excepthook>>
  /\ UNCHANGED nonUnrVars

\* a recursion check whose failure does not leave the function
EnterRecursiveCall_NoGoto ==
  /\ AtPc("enter")
  /\ IF depth < RecursionLimit
       THEN /\ depth' = depth + 1
            /\ ustack' = SetTop([Top EXCEPT !.can_recurse = TRUE, !.pc = "log"])
            /\ UNCHANGED pyerr
       ELSE /\ pyerr' = RecursionError
            /\ ustack' = SetTop([Top EXCEPT !.can_recurse = FALSE, !.pc = "log"])
            /\ UNCHANGED depth
  /\ UNCHANGED <<sys_unraisablehook, sys_excepthook>>
  /\ UNCHANGED nonUnrVars

\* int can_recurse = !Py_EnterRecursiveCall(...); if (!can_recurse) ...
\* Py_EnterRecursiveCall fails, with RecursionError set, when the recursion
\* limit is reached, and counts the call otherwise.
EnterRecursiveCall ==
  /\ AtPc("enter")
  /\ IF depth < RecursionLimit
       THEN /\ depth' = depth + 1
            /\ ustack' = SetTop([Top EXCEPT !.can_recurse = TRUE, !.pc = "log"])
            /\ UNCHANGED pyerr
       ELSE /\ pyerr' = RecursionError
            /\ ustack' = SetTop([Top EXCEPT !.can_recurse = FALSE, !.pc = "print"])
            /\ UNCHANGED depth
  /\ UNCHANGED <<sys_unraisablehook, sys_excepthook>>
  /\ UNCHANGED nonUnrVars

\* PyErr_Print(); goto finally;  PyErr_Print shows the pending exception and
\* clears the error indicator
PyErr_Print ==
  /\ AtPc("print")
  /\ ustack' = SetTop([Top EXCEPT !.shown = Append(@, <<pyerr, "PyErr_Print">>),
                                  !.pc = "finally"])
  /\ pyerr' = NoError
  /\ UNCHANGED <<depth, sys_unraisablehook, sys_excepthook>>
  /\ UNCHANGED nonUnrVars

\* tell sqlite3_log: PyObject_Str(err_value) (which may fail), PyErr_Clear,
\* sqlite3_log
Log ==
  /\ AtPc("log")
  /\ ustack' = SetTop([Top EXCEPT !.logged = TRUE, !.pc = "hookobject"])
  /\ pyerr' = PyErr_Clear
  /\ UNCHANGED <<depth, sys_unraisablehook, sys_excepthook>>
  /\ UNCHANGED nonUnrVars

\* if (hookobject) { excepthook = PyObject_GetAttrString(...); PyErr_Clear();
\*   if (excepthook) result = PyObject_CallFunction(...) ...
LookupHookObject ==
  /\ AtPc("hookobject")
  /\ IF Top.hookobject = "excepthook"
       THEN ustack' = SetTop([Top EXCEPT !.pc = "calling", !.cur = "hookobject",
                                         !.st["hookobject"] = "calling",
                                         !.order = Append(@, "hookobject")])
       ELSE ustack' = SetTop([Top EXCEPT !.pc = "unraisablehook",
                                         !.st["hookobject"] = "absent"])
  /\ pyerr' = IF Top.hookobject = "NULL" THEN pyerr ELSE PyErr_Clear
  /\ UNCHANGED <<depth, sys_unraisablehook, sys_excepthook>>
  /\ UNCHANGED nonUnrVars

\* excepthook = PySys_GetObject("unraisablehook"); if (excepthook) {
\*   PyErr_Clear(); arg = PyStructSequence_New(...); if (arg) ... call
\* argok: PyStructSequence_New succeeds
LookupUnraisableHook(argok) ==
  /\ AtPc("unraisablehook")
  /\ IF ~sys_unraisablehook
       THEN /\ ustack' = SetTop([Top EXCEPT !.pc = "excepthook",
                                            !.st["unraisablehook"] = "absent"])
            /\ UNCHANGED pyerr
       ELSE IF argok
         THEN /\ ustack' = SetTop([Top EXCEPT !.pc = "calling", !.cur = "unraisablehook",
                                              !.st["unraisablehook"] = "calling",
                                              !.order = Append(@, "unraisablehook")])
              /\ pyerr' = PyErr_Clear
         ELSE /\ ustack' = SetTop([Top EXCEPT !.pc = "excepthook",
                                              !.st["unraisablehook"] = "failed"])
              /\ pyerr' = MemoryError
  /\ UNCHANGED <<depth, sys_unraisablehook, sys_excepthook>>
  /\ UNCHANGED nonUnrVars

\* excepthook = PySys_GetObject("excepthook"); if (excepthook) {
\*   PyErr_Clear(); result = PyObject_CallFunction(...) ...
LookupExceptHook ==
  /\ AtPc("excepthook")
  /\ IF sys_excepthook
       THEN /\ ustack' = SetTop([Top EXCEPT !.pc = "calling", !.cur = "excepthook",
                                            !.st["excepthook"] = "calling",
                                            !.order = Append(@, "excepthook")])
            /\ pyerr' = PyErr_Clear
       ELSE /\ ustack' = SetTop([Top EXCEPT !.pc = "display",
                                            !.st["excepthook"] = "absent"])
            /\ UNCHANGED pyerr
  /\ UNCHANGED <<depth, sys_unraisablehook, sys_excepthook>>
  /\ UNCHANGED nonUnrVars

\* The hook being called runs into a callback failure of its own, which is
\* reported through apsw_write_unraisable(h) before the hook goes on.
HookRedispatches(h) ==
  /\ AtPc("calling")
  /\ ustack' = Append(ustack, NewFrame(h))
  /\ pyerr' = GivenExc(Len(ustack) + 1)
  /\ UNCHANGED <<depth, sys_unraisablehook, sys_excepthook>>
  /\ UNCHANGED nonUnrVars

\* PyObject_CallFunction returns: a result (ok), or NULL with the hook's
\* exception set
CallReturns(ok) ==
  /\ AtPc("calling")
  /\ ustack' = SetTop([Top EXCEPT !.pc = AfterCall(Top.cur, ok),
                                  !.st[Top.cur] = IF ok THEN "ok" ELSE "failed",
                                  !.cur = "none"])
  /\ pyerr' = IF ok THEN NoError ELSE HookError
  /\ UNCHANGED <<depth, sys_unraisablehook, sys_excepthook>>
  /\ UNCHANGED nonUnrVars

\* PyErr_Clear(); PyErr_Display(err_type, err_value, err_traceback);
Display ==
  /\ AtPc("display")
  /\ ustack' = SetTop([Top EXCEPT !.shown = Append(@, <<Top.err, "PyErr_Display">>),
                                  !.st["display"] = "ok",
                                  !.order = Append(@, "display"),
                                  !.pc = "finally"])
  /\ pyerr' = PyErr_Clear
  /\ UNCHANGED <<depth, sys_unraisablehook, sys_excepthook>>
  /\ UNCHANGED nonUnrVars

\* finally: ... PyErr_Clear(); if (can_recurse) Py_LeaveRecursiveCall();
Finally ==
  /\ AtPc("finally")
  /\ ustack' = SetTop([Top EXCEPT !.pc = "done"])
  /\ pyerr' = PyErr_Clear
  /\ depth' = IF Top.can_recurse THEN depth - 1 ELSE depth
  /\ UNCHANGED <<sys_unraisablehook, sys_excepthook>>
  /\ UNCHANGED nonUnrVars

\* the function returns to its caller: the code around the callback, or the
\* hook that got here
ReturnU ==
  /\ AtPc("done")
  /\ ustack' = SubSeq(ustack, 1, Len(ustack) - 1)
  /\ UNCHANGED <<pyerr, depth, sys_unraisablehook, sys_excepthook>>
  /\ UNCHANGED nonUnrVars

UnrStep ==
  \/ Fetch
  \/ EnterRecursiveCall
  \/ PyErr_Print
  \/ Log
  \/ LookupHookObject
  \/ \E argok \in BOOLEAN : LookupUnraisableHook(argok)
  \/ LookupExceptHook
  \/ \E ok \in BOOLEAN : CallReturns(ok)
  \/ Display
  \/ Finally
  \/ ReturnU

UnrNext ==
  \/ \E h \in HookObjects, d \in 0..RecursionLimit, uh \in BOOLEAN, eh \in BOOLEAN :
       Dispatch(h, d, uh, eh)
  \/ Fetch
  \/ EnterRecursiveCall
  \/ PyErr_Print
  \/ Log
  \/ LookupHookObject
  \/ \E argok \in BOOLEAN : LookupUnraisableHook(argok)
  \/ LookupExceptHook
  \/ \E h \in HookObjects : HookRedispatches(h)
  \/ \E ok \in BOOLEAN : CallReturns(ok)
  \/ Display
  \/ Finally
  \/ ReturnU

InitUnraisable == BridgeInit /\ UnrParked /\ TrackInit /\ ConvIdle

SpecUnraisable == InitUnraisable /\ [][UnrNext]_vars

(***************************************************************************)
(* Claims about apsw_write_unraisable                                      *)
(***************************************************************************)
Frames == {ustack[i] : i \in 1..Len(ustack)}
Called(fr, s) == \E i \in 1..Len(fr.order) : fr.order[i] = s

\* C4: an invocation that has reached its return has no exception pending,
\* whatever the hooks did, and an invocation that has not can always go on
\* towards its return.
C4_NoExceptionEscapes ==
  /\ AtPc("done") => pyerr = NoError
  /\ (ustack # <<>>) => ENABLED UnrStep

\* an invocation is returning after all three hooks were called and raised
C4_Witness ==
  /\ AtPc("done")
  /\ Top.st["hookobject"] = "failed"
  /\ Top.st["unraisablehook"] = "failed"
  /\ Top.st["excepthook"] = "failed"
  /\ Top.order = Steps

\* C5: the steps are tried in the order hookobject's excepthook,
\* sys.unraisablehook, sys.excepthook, PyErr_Display; a step is tried only
\* if every earlier one was absent or failed, and none after a success.
C5_OrderedFirstSuccess ==
  \A fr \in Frames :
    /\ \A i, j \in 1..Len(fr.order) : i < j => Rank(fr.order[i]) < Rank(fr.order[j])
    /\ \A s, e \in StepSet :
         (Called(fr, s) /\ Rank(e) < Rank(s)) => fr.st[e] \in {"absent", "failed"}
    /\ \A s, l \in StepSet :
         (fr.st[s] = "ok" /\ Rank(s) < Rank(l)) => (fr.st[l] = "none" /\ ~Called(fr, l))
    /\ \A s \in StepSet : (fr.st[s] \in {"calling", "ok"}) => Called(fr, s)

\* an invocation is returning after hookobject's excepthook raised and
\* sys.unraisablehook succeeded: sys.excepthook exists and was not called
C5_Witness ==
  /\ AtPc("done")
  /\ Top.order = <<"hookobject", "unraisablehook">>
  /\ Top.st["hookobject"] = "failed"
  /\ Top.st["unraisablehook"] = "ok"
  /\ sys_excepthook
  /\ Top.st["excepthook"] = "none"
  /\ Top.shown = <<>>

\* frame fr did nothing but the display of PyErr_Print
OnlyPrints(fr) ==
  /\ fr.order = <<>>
  /\ ~fr.logged
  /\ \A s \in StepSet : fr.st[s] = "none"
  /\ \A i \in 1..Len(fr.shown) : fr.shown[i][2] = "PyErr_Print"
  /\ fr.pc \in {"fetch", "enter", "print", "finally", "done"}

\* C10 as stated: an invocation entered while another one is running only
\* displays: it calls no hook and does not log.
C10_Original ==
  \A i \in 2..Len(ustack) : OnlyPrints(ustack[i])

\* C10 as amended: an invocation for which Py_EnterRecursiveCall fails (the
\* interpreter's recursion limit is reached) only calls PyErr_Print and
\* returns: no sqlite3_log, no hook, no PyErr_Display; every other
\* invocation, re-entrant or not, counts against the recursion limit, so at
\* most RecursionLimit invocations that run the hooks are nested.
C10_RecursionLimitGuard ==
  /\ \A fr \in Frames :
       (fr.pc \notin {"fetch", "enter"} /\ ~fr.can_recurse) => OnlyPrints(fr)
  /\ \A i \in 1..Len(ustack) :
       (ustack[i].pc \notin {"fetch", "enter"} /\ ~ustack[i].can_recurse) => i = Len(ustack)
  /\ Cardinality({i \in 1..Len(ustack) : ustack[i].can_recurse}) <= RecursionLimit
  /\ Len(ustack) <= RecursionLimit + 1
  /\ depth <= RecursionLimit

\* a re-entrant invocation at the recursion limit is returning after
\* PyErr_Print, the invocation whose hook led to it still waiting
C10_Witness ==
  /\ Len(ustack) >= 2
  /\ AtPc("done")
  /\ ~Top.can_recurse
  /\ Len(Top.shown) = 1 /\ Top.shown[1][2] = "PyErr_Print"
  /\ ustack[Len(ustack) - 1].pc = "calling"


\* frame fr has reported the exception it was given: a hook called with it
\* has succeeded, or that exception was displayed
Reported(fr) ==
  \/ \E s \in {"hookobject", "unraisablehook", "excepthook"} : fr.st[s] = "ok"
  \/ \E i \in 1..Len(fr.shown) : fr.shown[i][1] = fr.err

\* C20: every invocation that has reached its return, the one on the
\* recursion-guard path included, has reported the exception it was given:
\* a hook succeeded with it or that exception was displayed.
C20_AlwaysReported ==
  \A fr \in Frames : fr.pc = "done" => Reported(fr)

(***************************************************************************)
(* CALL_TRACK / CALL_ENTER / CALL_LEAVE / CALL_CHECK.  A callback is a C   *)
(* function whose locals enter_call_save_##name and enter_call_here_##name *)
(* live in its stack frame; the frame of the i-th nested callback is at    *)
(* address i, and the address is used again by the next callback that      *)
(* nests as deep.                                                          *)
(***************************************************************************)
TopC == cstack[Len(cstack)]
SetTopC(fr) == [cstack EXCEPT ![Len(cstack)] = fr]

\* address a holds a sentinel of a callback that has not returned
Live(a) == a \in 1..Len(cstack) /\ cstack[a].pc # "enter"

\* SQLite calls the callback for name: its frame is pushed.  before is the
\* value of the slot at that moment.
Call(name) ==
  /\ Len(cstack) < MaxCallDepth
  /\ IF cstack = <<>> THEN TRUE ELSE TopC.pc = "body"
  /\ cstack' = Append(cstack, [name |-> name, pc |-> "enter", save |-> 0,
                               before |-> in_call[name]])
  /\ UNCHANGED <<in_call, mem, track_assert, misuse>>
  /\ UNCHANGED nonTrackVars

\* CALL_ENTER(name).  The assert reads *(self->in_call##name); when the slot
\* points into a frame that has returned the read is undefined: the assert
\* passes (dangling_ok) or fails.
CALL_ENTER(dangling_ok) ==
  /\ cstack # <<>> /\ TopC.pc = "enter"
  /\ LET n == TopC.name
         p == in_call[n]
         a == Len(cstack)
         ok == IF p = 0 THEN TRUE
               ELSE IF Live(p) THEN mem[p] = MAGIC(n)
               ELSE dangling_ok
     IN /\ track_assert' = (track_assert \/ ~ok)
        /\ cstack' = SetTopC([TopC EXCEPT !.save = p, !.pc = "body"])
        /\ mem' = [mem EXCEPT ![a] = MAGIC(n)]
        /\ in_call' = [in_call EXCEPT ![n] = a]
  /\ UNCHANGED misuse
  /\ UNCHANGED nonTrackVars

\* a CALL_LEAVE that resets the slot instead of restoring it
CALL_LEAVE_Reset ==
  /\ cstack # <<>> /\ TopC.pc = "body"
  /\ in_call' = [in_call EXCEPT ![TopC.name] = 0]
  /\ cstack' = SetTopC([TopC EXCEPT !.pc = "left"])
  /\ UNCHANGED <<mem, track_assert, misuse>>
  /\ UNCHANGED nonTrackVars

\* CALL_LEAVE(name): self->in_call##name = enter_call_save_##name
CALL_LEAVE ==
  /\ cstack # <<>> /\ TopC.pc = "body"
  /\ in_call' = [in_call EXCEPT ![TopC.name] = TopC.save]
  /\ cstack' = SetTopC([TopC EXCEPT !.pc = "left"])
  /\ UNCHANGED <<mem, track_assert, misuse>>
  /\ UNCHANGED nonTrackVars

\* the callback returns after its CALL_LEAVE
ReturnC ==
  /\ cstack # <<>> /\ TopC.pc = "left"
  /\ cstack' = SubSeq(cstack, 1, Len(cstack) - 1)
  /\ UNCHANGED <<in_call, mem, track_assert, misuse>>
  /\ UNCHANGED nonTrackVars

\* the callback returns on a path that has no CALL_LEAVE
ReturnWithoutLeave ==
  /\ cstack # <<>> /\ TopC.pc = "body"
  /\ cstack' = SubSeq(cstack, 1, Len(cstack) - 1)
  /\ misuse' = TRUE
  /\ UNCHANGED <<in_call, mem, track_assert>>
  /\ UNCHANGED nonTrackVars

\* CALL_CHECK(name)
CALL_CHECK(name) == in_call[name] # 0

TrackNext ==
  \/ \E name \in Names : Call(name)
  \/ \E dangling_ok \in BOOLEAN : CALL_ENTER(dangling_ok)
  \/ CALL_LEAVE
  \/ ReturnC
  \/ ReturnWithoutLeave

InitTrack == BridgeInit /\ UnrParked /\ TrackInit /\ ConvIdle

SpecTrack == InitTrack /\ [][TrackNext]_vars

(***************************************************************************)
(* Claims about call tracking                                              *)
(***************************************************************************)
\* the frames of callbacks for name that are between CALL_ENTER and CALL_LEAVE
Entered(name) == {i \in 1..Len(cstack) : cstack[i].name = name /\ cstack[i].pc = "body"}
Innermost(S) == CHOOSE i \in S : \A j \in S : j <= i

\* C6: as long as every callback leaves through CALL_LEAVE, a leave puts
\* back the slot value found by its enter, CALL_CHECK is true exactly while
\* some enter has not been left, and the slot is NULL after the last leave.
C6_NestedEnterLeave ==
  ~misuse =>
    /\ ~track_assert
    /\ \A n \in Names :
         /\ CALL_CHECK(n) <=> Entered(n) # {}
         /\ in_call[n] = (IF Entered(n) = {} THEN 0 ELSE Innermost(Entered(n)))
         /\ in_call[n] # 0 => mem[in_call[n]] = MAGIC(n)
    /\ \A i \in 1..Len(cstack) :
         cstack[i].pc = "left" => in_call[cstack[i].name] = cstack[i].before
    /\ cstack = <<>> => \A n \in Names : ~CALL_CHECK(n)

\* two nested callbacks of one name: the inner one has left, the outer one
\* is still entered and the slot points at the outer sentinel again
C6_Witness ==
  /\ ~misuse
  /\ Len(cstack) = 2
  /\ cstack[1].name = "xConnect" /\ cstack[1].pc = "body"
  /\ cstack[2].name = "xConnect" /\ cstack[2].pc = "left"
  /\ in_call["xConnect"] = 1
  /\ CALL_CHECK("xConnect")


\* the callbacks for name that have executed CALL_ENTER and not returned
Running(name) ==
  {i \in 1..Len(cstack) : cstack[i].name = name /\ cstack[i].pc \in {"body", "left"}}

\* C11: a callback that returns without CALL_LEAVE is not silently ignored:
\* CALL_CHECK(name) never reports the context as active when no callback
\* for name is running, unless an assertion of the tracker has failed.
C11_MissingLeaveIsFatal ==
  \A n \in Names : (CALL_CHECK(n) /\ Running(n) = {}) => track_assert

(***************************************************************************)
(* convert_value_to_pyobject(value, in_constraint_possible,                *)
(* no_change_possible)                                                     *)
(***************************************************************************)
\* a == b in Python, for the objects the function builds: an int and a
\* float of the same number are equal (and hash alike)
PyEq(a, b) ==
  \/ a = b
  \/ a.py \in {"int", "float"} /\ b.py \in {"int", "float"} /\ a.v = b.v

\* the elements of the set after PySet_Add(set, v)
PySet_Add(set, v) == IF \E e \in set : PyEq(e, v) THEN set ELSE set \cup {v}

\* the function without the test of no_change_possible
Immediate_IgnoresMode(value, inc, nc) ==
  IF value.nochange THEN apsw_no_change_object
  ELSE CASE value.type = "INTEGER" -> PyObj("int", value.data)
         [] value.type = "FLOAT" -> PyObj("float", value.data)
         [] value.type = "TEXT" -> PyObj("str", value.data)
         [] value.type = "BLOB" -> PyObj("bytes", value.data)
         [] OTHER -> IF inc THEN PyObj("in_first", 0) ELSE Py_None

\* What the function returns before it looks at an IN list: the
\* no-change object, the object for the value's type, None for a NULL
\* when in_constraint_possible is 0, and otherwise the mark that
\* sqlite3_vtab_in_first is called next.
Immediate(value, inc, nc) ==
  IF nc /\ value.nochange THEN apsw_no_change_object
  ELSE CASE value.type = "INTEGER" -> PyObj("int", value.data)
         [] value.type = "FLOAT" -> PyObj("float", value.data)
         [] value.type = "TEXT" -> PyObj("str", value.data)
         [] value.type = "BLOB" -> PyObj("bytes", value.data)
         [] OTHER -> IF inc THEN PyObj("in_first", 0) ELSE Py_None

\* the flags convert_value_to_pyobject_not_in passes
NotInFlags_Enabled == [inc |-> TRUE, nc |-> TRUE]

\* return convert_value_to_pyobject(value, 0, 0);
NotInFlags == [inc |-> FALSE, nc |-> FALSE]

ValueFns == {"convert_value_to_pyobject", "convert_value_to_pyobject_not_in"}

\* A caller, holding the GIL, converts a value: through
\* convert_value_to_pyobject with either setting of the two flags, or
\* through convert_value_to_pyobject_not_in.
ConvCall ==
  /\ cv_pc = "idle"
  /\ \E value \in Values, fn \in ValueFns, inc \in BOOLEAN, nc \in BOOLEAN :
       /\ fn = "convert_value_to_pyobject_not_in"
            => (inc = NotInFlags.inc /\ nc = NotInFlags.nc)
       /\ cv_fn' = fn
       /\ cv_value' = value
       /\ cv_inc' = inc
       /\ cv_nc' = nc
  /\ cv_pc' = "switch"
  /\ cv_gil' = TRUE
  /\ UNCHANGED <<cv_idx, cv_set, cv_v, cv_result, cv_exc, cv_fault, cv_freed,
                 cv_acc, cv_native>>
  /\ UNCHANGED nonConvVars

\* lines 242-263 and 292-295.  allocfail: the PyLong_, PyFloat_, PyUnicode_
\* or PyBytes_ constructor fails.
ConvSwitch(allocfail) ==
  /\ cv_pc = "switch"
  /\ LET r == Immediate(cv_value, cv_inc, cv_nc)
     IN IF r.py = "in_first"
          THEN /\ cv_pc' = "in_first"
               /\ UNCHANGED <<cv_result, cv_exc, cv_fault>>
          ELSE IF allocfail /\ r.py \in {"int", "float", "str", "bytes"}
            THEN /\ cv_pc' = "returned"
                 /\ cv_result' = PyNULL
                 /\ cv_exc' = "MemoryError"
                 /\ cv_fault' = "alloc"
            ELSE /\ cv_pc' = "returned"
                 /\ cv_result' = r
                 /\ UNCHANGED <<cv_exc, cv_fault>>
  /\ UNCHANGED <<cv_value, cv_inc, cv_nc, cv_idx, cv_set, cv_v, cv_freed>>
  /\ UNCHANGED <<cv_fn, cv_acc, cv_gil, cv_native>>
  /\ UNCHANGED nonConvVars

\* a list step made as a checked call inside INUSE_CALL
ListCall_ThroughBridge(name) ==
  [fn |-> name, via |-> "checked", guarded |-> TRUE, gil |-> FALSE]

\* How the function makes a step of the IN list: it calls
\* sqlite3_vtab_in_first and sqlite3_vtab_in_next itself, outside any call
\* macro and any INUSE_CALL, holding the GIL or not as it does at that point.
ListCall(name) ==
  [fn |-> name, via |-> "direct", guarded |-> FALSE, gil |-> cv_gil]

\* What sqlite3_vtab_in_first(value, &in_value) returns and leaves in
\* in_value, as SQLite documents it: SQLITE_ERROR for a value that is not
\* the head of an IN list, SQLITE_OK and the first value, SQLITE_DONE and
\* NULL when the list has no values, another code and NULL on a malfunction.
sqlite3_vtab_in_first(value, malfunction) ==
  IF ~value.islist THEN [rc |-> "ERROR", idx |-> 0]
  ELSE IF malfunction THEN [rc |-> "NOMEM", idx |-> 0]
  ELSE IF Len(value.list) = 0 THEN [rc |-> "DONE", idx |-> 0]
  ELSE [rc |-> "OK", idx |-> 1]

\* What sqlite3_vtab_in_next(value, &in_value) returns and leaves in
\* in_value after the value at position idx.
sqlite3_vtab_in_next(value, idx, malfunction) ==
  IF malfunction THEN [rc |-> "NOMEM", idx |-> 0]
  ELSE IF idx < Len(value.list) THEN [rc |-> "OK", idx |-> idx + 1]
  ELSE [rc |-> "DONE", idx |-> 0]

\* if (in_constraint_possible && sqlite3_vtab_in_first(...) == SQLITE_OK)
\*   { set = PySet_New(NULL); if (!set) return NULL; ... }  Py_RETURN_NONE;
\* setfail: PySet_New fails
ConvInFirst(malfunction, setfail) ==
  /\ cv_pc = "in_first"
  /\ LET f == sqlite3_vtab_in_first(cv_value, malfunction)
     IN IF f.rc = "OK"
          THEN IF setfail
                 THEN /\ cv_pc' = "returned"
                      /\ cv_result' = PyNULL
                      /\ cv_exc' = "MemoryError"
                      /\ cv_fault' = "PySet_New"
                      /\ UNCHANGED <<cv_idx, cv_set>>
                 ELSE /\ cv_pc' = "loop"
                      /\ cv_idx' = f.idx
                      /\ cv_set' = {}
                      /\ UNCHANGED <<cv_result, cv_exc, cv_fault>>
          ELSE /\ cv_pc' = "returned"
               /\ cv_result' = Py_None
               /\ cv_fault' = (IF f.rc = "NOMEM" THEN "sqlite3_vtab_in_first" ELSE cv_fault)
               /\ UNCHANGED <<cv_idx, cv_set, cv_exc>>
  /\ UNCHANGED <<cv_value, cv_inc, cv_nc, cv_v, cv_freed>>
  /\ cv_native' = cv_native \cup {ListCall("sqlite3_vtab_in_first")}
  /\ UNCHANGED <<cv_fn, cv_acc, cv_gil>>
  /\ UNCHANGED nonConvVars

\* while (in_value) { ... } return set;   the loop test fails
ConvLoopEnd ==
  /\ cv_pc = "loop"
  /\ cv_idx = 0
  /\ cv_pc' = "returned"
  /\ cv_result' = PySetResult
  /\ UNCHANGED <<cv_value, cv_inc, cv_nc, cv_idx, cv_set, cv_v, cv_exc, cv_fault,
                 cv_freed>>
  /\ UNCHANGED <<cv_fn, cv_acc, cv_gil, cv_native>>
  /\ UNCHANGED nonConvVars

\* v = convert_value_to_pyobject(in_value, 0, 0);
\* if (!v || 0 != PySet_Add(set, v)) goto error;  Py_CLEAR(v);
\* vfail: the conversion of the element fails; addfail: PySet_Add fails
ConvElement(vfail, addfail) ==
  /\ cv_pc = "loop"
  /\ cv_idx # 0
  /\ LET v == Immediate(cv_value.list[cv_idx], FALSE, FALSE)
     IN IF vfail /\ v.py \in {"int", "float", "str", "bytes"}
          THEN /\ cv_v' = PyNULL
               /\ cv_exc' = "MemoryError"
               /\ cv_fault' = "element"
               /\ cv_pc' = "error"
               /\ UNCHANGED cv_set
          ELSE IF addfail
            THEN /\ cv_v' = v
                 /\ cv_exc' = "MemoryError"
                 /\ cv_fault' = "PySet_Add"
                 /\ cv_pc' = "error"
                 /\ UNCHANGED cv_set
            ELSE /\ cv_v' = PyNULL
                 /\ cv_set' = PySet_Add(cv_set, v)
                 /\ cv_pc' = "in_next"
                 /\ UNCHANGED <<cv_exc, cv_fault>>
  /\ UNCHANGED <<cv_value, cv_inc, cv_nc, cv_idx, cv_result, cv_freed>>
  /\ UNCHANGED <<cv_fn, cv_acc, cv_gil, cv_native>>
  /\ UNCHANGED nonConvVars

\* res = sqlite3_vtab_in_next(value, &in_value);
\* if (res != SQLITE_DONE && res != SQLITE_OK) { PyErr_Format(...); goto error; }
ConvInNext(malfunction) ==
  /\ cv_pc = "in_next"
  /\ LET n == sqlite3_vtab_in_next(cv_value, cv_idx, malfunction)
     IN /\ cv_idx' = n.idx
        /\ IF n.rc # "DONE" /\ n.rc # "OK"
             THEN /\ cv_exc' = "ValueError"
                  /\ cv_fault' = "sqlite3_vtab_in_next"
                  /\ cv_pc' = "error"
             ELSE /\ cv_pc' = "loop"
                  /\ UNCHANGED <<cv_exc, cv_fault>>
  /\ UNCHANGED <<cv_value, cv_inc, cv_nc, cv_set, cv_v, cv_result, cv_freed>>
  /\ cv_native' = cv_native \cup {ListCall("sqlite3_vtab_in_next")}
  /\ UNCHANGED <<cv_fn, cv_acc, cv_gil>>
  /\ UNCHANGED nonConvVars

\* an error path that returns the set built so far
ConvError_ReturnsSet ==
  /\ cv_pc = "error"
  /\ cv_freed' = {"v"}
  /\ cv_v' = PyNULL
  /\ cv_result' = PySetResult
  /\ cv_pc' = "returned"
  /\ UNCHANGED <<cv_value, cv_inc, cv_nc, cv_idx, cv_set, cv_exc, cv_fault>>
  /\ UNCHANGED <<cv_fn, cv_acc, cv_gil, cv_native>>
  /\ UNCHANGED nonConvVars

\* error: Py_XDECREF(v); Py_XDECREF(set); return NULL;
ConvError ==
  /\ cv_pc = "error"
  /\ cv_freed' = {"v", "set"}
  /\ cv_v' = PyNULL
  /\ cv_set' = {}
  /\ cv_result' = PyNULL
  /\ cv_pc' = "returned"
  /\ UNCHANGED <<cv_value, cv_inc, cv_nc, cv_idx, cv_exc, cv_fault>>
  /\ UNCHANGED <<cv_fn, cv_acc, cv_gil, cv_native>>
  /\ UNCHANGED nonConvVars

\* the caller has taken the result
ConvDone ==
  /\ cv_pc = "returned"
  /\ cv_pc' = "idle"
  /\ cv_value' = Plain("NULL", 0)
  /\ cv_inc' = FALSE
  /\ cv_nc' = FALSE
  /\ cv_idx' = 0
  /\ cv_set' = {}
  /\ cv_v' = PyNULL
  /\ cv_result' = PyNULL
  /\ cv_exc' = "none"
  /\ cv_fault' = "none"
  /\ cv_freed' = {}
  /\ cv_fn' = "none"
  /\ cv_acc' = "none"
  /\ cv_gil' = FALSE
  /\ cv_native' = {}
  /\ UNCHANGED nonConvVars


(***************************************************************************)
(* convert_column_to_pyobject(stmt, col).  Each accessor is wrapped in     *)
(* _PYSQLITE_CALL_V; the thread walks the statements of that macro, cv_acc *)
(* naming the accessor inside it.                                          *)
(***************************************************************************)
\* the accessor(s) the switch calls for a column type
ColumnAccessor(type) ==
  CASE type = "INTEGER" -> "sqlite3_column_int64"
    [] type = "FLOAT" -> "sqlite3_column_double"
    [] type = "TEXT" -> "sqlite3_column_text"
    [] type = "BLOB" -> "sqlite3_column_blob"

\* the object the switch builds from what the accessor returned
ColumnObject(value) ==
  CASE value.type = "INTEGER" -> PyObj("int", value.data)
    [] value.type = "FLOAT" -> PyObj("float", value.data)
    [] value.type = "TEXT" -> PyObj("str", value.data)
    [] value.type = "BLOB" -> PyObj("bytes", value.data)
    [] OTHER -> Py_None

\* A caller, holding the GIL, converts a column of the current row; the
\* column holds value.
ColCall ==
  /\ cv_pc = "idle"
  /\ \E value \in Elements : cv_value' = value
  /\ cv_fn' = "convert_column_to_pyobject"
  /\ cv_acc' = "sqlite3_column_type"
  /\ cv_gil' = TRUE
  /\ cv_pc' = "allow_begin"
  /\ UNCHANGED <<cv_inc, cv_nc, cv_idx, cv_set, cv_v, cv_result, cv_exc, cv_fault,
                 cv_freed, cv_native>>
  /\ UNCHANGED nonConvVars

\* a Py_BEGIN_ALLOW_THREADS of convert_column_to_pyobject that keeps the GIL
ColBeginAllowThreads_KeepGil ==
  /\ cv_pc = "allow_begin"
  /\ cv_pc' = PYSQLITE_CALL_V(cv_pc)
  /\ UNCHANGED <<cv_value, cv_inc, cv_nc, cv_idx, cv_set, cv_v, cv_result, cv_exc,
                 cv_fault, cv_freed, cv_fn, cv_acc, cv_gil, cv_native>>
  /\ UNCHANGED nonConvVars

\* Py_BEGIN_ALLOW_THREADS of the _PYSQLITE_CALL_V around the accessor
ColBeginAllowThreads ==
  /\ cv_pc = "allow_begin"
  /\ cv_gil' = FALSE
  /\ cv_pc' = PYSQLITE_CALL_V(cv_pc)
  /\ UNCHANGED <<cv_value, cv_inc, cv_nc, cv_idx, cv_set, cv_v, cv_result, cv_exc,
                 cv_fault, cv_freed, cv_fn, cv_acc, cv_native>>
  /\ UNCHANGED nonConvVars

\* x of the _PYSQLITE_CALL_V: the accessor runs
ColAccessor ==
  /\ cv_pc = "native"
  /\ cv_native' = cv_native \cup
       {[fn |-> cv_acc, via |-> "void", guarded |-> FALSE, gil |-> cv_gil]}
  /\ cv_pc' = PYSQLITE_CALL_V(cv_pc)
  /\ UNCHANGED <<cv_value, cv_inc, cv_nc, cv_idx, cv_set, cv_v, cv_result, cv_exc,
                 cv_fault, cv_freed, cv_fn, cv_acc, cv_gil>>
  /\ UNCHANGED nonConvVars

\* Py_END_ALLOW_THREADS of the _PYSQLITE_CALL_V; the macro is left for the
\* switch after sqlite3_column_type and for the constructor after the others
ColEndAllowThreads ==
  /\ cv_pc = "allow_end"
  /\ cv_gil' = TRUE
  /\ cv_pc' = IF cv_acc = "sqlite3_column_type" THEN "col_switch" ELSE "col_build"
  /\ UNCHANGED <<cv_value, cv_inc, cv_nc, cv_idx, cv_set, cv_v, cv_result, cv_exc,
                 cv_fault, cv_freed, cv_fn, cv_acc, cv_native>>
  /\ UNCHANGED nonConvVars

\* switch (coltype): Py_RETURN_NONE for SQLITE_NULL (and default), otherwise
\* the _PYSQLITE_CALL_V of the accessor for the type
ColSwitch ==
  /\ cv_pc = "col_switch"
  /\ IF cv_value.type = "NULL"
       THEN /\ cv_result' = Py_None
            /\ cv_pc' = "returned"
            /\ UNCHANGED cv_acc
       ELSE /\ cv_acc' = ColumnAccessor(cv_value.type)
            /\ cv_pc' = "allow_begin"
            /\ UNCHANGED cv_result
  /\ UNCHANGED <<cv_value, cv_inc, cv_nc, cv_idx, cv_set, cv_v, cv_exc, cv_fault,
                 cv_freed, cv_fn, cv_gil, cv_native>>
  /\ UNCHANGED nonConvVars

\* return PyLong_FromLongLong(val); and the like.  allocfail: the
\* constructor fails
ColBuild(allocfail) ==
  /\ cv_pc = "col_build"
  /\ IF allocfail
       THEN /\ cv_result' = PyNULL
            /\ cv_exc' = "MemoryError"
            /\ cv_fault' = "alloc"
       ELSE /\ cv_result' = ColumnObject(cv_value)
            /\ UNCHANGED <<cv_exc, cv_fault>>
  /\ cv_pc' = "returned"
  /\ UNCHANGED <<cv_value, cv_inc, cv_nc, cv_idx, cv_set, cv_v, cv_freed, cv_fn,
                 cv_acc, cv_gil, cv_native>>
  /\ UNCHANGED nonConvVars

ColNext ==
  \/ ColCall
  \/ ColBeginAllowThreads
  \/ ColAccessor
  \/ ColEndAllowThreads
  \/ ColSwitch
  \/ \E allocfail \in BOOLEAN : ColBuild(allocfail)
  \/ ConvDone

ConvNext ==
  \/ ConvCall
  \/ \E allocfail \in BOOLEAN : ConvSwitch(allocfail)
  \/ \E malfunction \in BOOLEAN, setfail \in BOOLEAN : ConvInFirst(malfunction, setfail)
  \/ ConvLoopEnd
  \/ \E vfail \in BOOLEAN, addfail \in BOOLEAN : ConvElement(vfail, addfail)
  \/ \E malfunction \in BOOLEAN : ConvInNext(malfunction)
  \/ ConvError
  \/ ConvDone
  \/ ColCall
  \/ ColBeginAllowThreads
  \/ ColAccessor
  \/ ColEndAllowThreads
  \/ ColSwitch
  \/ \E allocfail \in BOOLEAN : ColBuild(allocfail)

InitConvert == BridgeInit /\ UnrParked /\ TrackInit /\ ConvIdle

SpecConvert == InitConvert /\ [][ConvNext]_vars

\* Every call this file makes through _PYSQLITE_CALL_V and _PYSQLITE_CALL_E:
\* the operations of the threads on wrapped objects, and between them, when
\* no operation is running, conversions of columns.
BridgeIdle == \A t \in Threads : pc[t] = "idle"

CallsNext ==
  \/ cv_pc = "idle" /\ Next
  \/ BridgeIdle /\ ColNext

InitCalls == BridgeInit /\ UnrParked /\ TrackInit /\ ConvIdle

SpecCalls == InitCalls /\ [][CallsNext]_vars

(***************************************************************************)
(* Claims about convert_value_to_pyobject                                  *)
(***************************************************************************)
\* the elements of the IN list as Python objects
Converted(value) ==
  {Immediate(value.list[i], FALSE, FALSE) : i \in 1..Len(value.list)}

\* set is, for Python, the set of the objects in objs: it holds an equal of
\* each, nothing else, and no two equal members
IsPySetOf(set, objs) ==
  /\ \A o \in objs : \E e \in set : PyEq(e, o)
  /\ set \subseteq objs
  /\ \A e1, e2 \in set : PyEq(e1, e2) => e1 = e2

\* the call has returned and nothing failed on the way
ReturnedClean == cv_pc = "returned" /\ cv_fault = "none"

\* C7: for the head of any IN list the function returns, with
\* in_constraint_possible, the set of the distinct converted elements, and
\* without it None.
C7_InListGivesSet ==
  (ReturnedClean /\ cv_value.islist) =>
    IF cv_inc
      THEN cv_result = PySetResult /\ IsPySetOf(cv_set, Converted(cv_value))
      ELSE cv_result = Py_None

\* what the code does for C7: the set for a list with values, None for a
\* list without values and without in_constraint_possible
C7_NonEmptyInListGivesSet ==
  (ReturnedClean /\ cv_value.islist) =>
    IF cv_inc /\ Len(cv_value.list) > 0
      THEN cv_result = PySetResult /\ IsPySetOf(cv_set, Converted(cv_value))
      ELSE cv_result = Py_None

\* the list [1, "a", null, 1] was converted to the set {1, "a", None}
C7_Example ==
  /\ ReturnedClean /\ cv_inc
  /\ cv_value.list = <<Plain("INTEGER", 1), Plain("TEXT", 1), Plain("NULL", 0),
                       Plain("INTEGER", 1)>>
  /\ cv_result = PySetResult
  /\ cv_set = {PyObj("int", 1), PyObj("str", 1), Py_None}

\* C8: the function returns the no-change object exactly when
\* no_change_possible is set and sqlite3_value_nochange is true; without
\* no_change_possible the unchanged value converts to None.
C8_NoChangeSentinel ==
  cv_pc = "returned" =>
    /\ (cv_result = apsw_no_change_object) <=> (cv_nc /\ cv_value.nochange)
    /\ (~cv_nc /\ cv_value.nochange) => cv_result = Py_None

\* an unchanged value was converted with no_change_possible and gave the
\* no-change object
C8_Witness ==
  /\ cv_pc = "returned"
  /\ cv_nc /\ cv_value.nochange /\ cv_value.type = "NULL"
  /\ cv_result = apsw_no_change_object

\* the two calls that step through an IN list
ListSteps == {"sqlite3_vtab_in_first", "sqlite3_vtab_in_next"}

\* C15 as stated: each step of the IN list is made as a checked call of the
\* call macros, under the in-use flag of INUSE_CALL.
C15_Original ==
  \A c \in cv_native : c.fn \in ListSteps => (c.via = "checked" /\ c.guarded)

\* C15 as amended: convert_value_to_pyobject makes each step of the IN list
\* itself, holding the GIL, outside the call macros and INUSE_CALL; no step
\* of the function changes an in-use flag, a lock or a captured error text.
C15_ListStepsAreDirect ==
  /\ [](\A c \in cv_native :
          c.fn \in ListSteps => (c.via = "direct" /\ ~c.guarded /\ c.gil))
  /\ [](cv_fn \in ValueFns => cv_gil)
  /\ [][UNCHANGED <<inuse, gil, mutex, db_errmsg, tls_errmsg, captured>>]_vars

\* the function is in its loop after sqlite3_vtab_in_first and
\* sqlite3_vtab_in_next, both called directly with the GIL held
C15_Witness ==
  /\ cv_pc = "loop" /\ cv_idx = 2
  /\ cv_native = {[fn |-> "sqlite3_vtab_in_first", via |-> "direct",
                   guarded |-> FALSE, gil |-> TRUE],
                  [fn |-> "sqlite3_vtab_in_next", via |-> "direct",
                   guarded |-> FALSE, gil |-> TRUE]}

\* the failures inside the loop over the IN list
LoopFaults == {"element", "PySet_Add", "sqlite3_vtab_in_next"}

\* C16: when the conversion of an element, PySet_Add or
\* sqlite3_vtab_in_next fails, the function goes to its error path at once,
\* releases v and the set, and returns NULL with an exception pending; a
\* set that is returned holds every element of the list.
C16_LoopFailureDiscardsSet ==
  /\ cv_fault \in LoopFaults =>
       /\ cv_pc \in {"error", "returned"}
       /\ cv_exc # "none"
       /\ cv_pc = "returned" =>
            /\ cv_result = PyNULL
            /\ cv_freed = {"v", "set"}
            /\ cv_v = PyNULL /\ cv_set = {}
  /\ (cv_pc = "returned" /\ cv_result = PySetResult) =>
       /\ cv_fault = "none"
       /\ IsPySetOf(cv_set, Converted(cv_value))

\* PySet_Add failed at the second element of a list: the function has
\* returned NULL with MemoryError pending after releasing v and the set
C16_Witness ==
  /\ cv_pc = "returned" /\ cv_fault = "PySet_Add" /\ cv_idx = 2
  /\ cv_result = PyNULL /\ cv_exc = "MemoryError"
  /\ cv_freed = {"v", "set"}

\* C17: only convert_value_to_pyobject with in_constraint_possible, on a
\* NULL value that heads an IN list, returns a set;
\* convert_value_to_pyobject_not_in and convert_column_to_pyobject return
\* neither a set nor the no-change object, and neither does the conversion
\* of an element, so no set holds a set.
C17_SetOnlyFromInList ==
  /\ (cv_pc = "returned" /\ cv_result = PySetResult) =>
       /\ cv_fn = "convert_value_to_pyobject"
       /\ cv_inc /\ cv_value.type = "NULL" /\ cv_value.islist
  /\ (cv_pc = "returned"
      /\ cv_fn \in {"convert_value_to_pyobject_not_in", "convert_column_to_pyobject"})
       => cv_result \notin {PySetResult, apsw_no_change_object}
  /\ \A e \in cv_set \cup {cv_v} : e.py \notin {"set", "no_change", "in_first"}

\* convert_value_to_pyobject_not_in was called on the head of an IN list
\* with values and returned None
C17_Witness ==
  /\ cv_pc = "returned" /\ cv_fn = "convert_value_to_pyobject_not_in"
  /\ cv_value.islist /\ Len(cv_value.list) > 0
  /\ cv_result = Py_None

\* C18: the SQLite call of a void call, of a checked call and of each
\* accessor of convert_column_to_pyobject runs while its thread does not
\* hold the GIL, and the thread holds the GIL again when the macro is left,
\* before a Python object is built.
C18_NativeCallsWithoutGil ==
  /\ \A t \in Threads :
       /\ pc[t] \in {"mutex_enter", "native", "errmsg", "mutex_leave", "allow_end"}
            => (gil # t /\ gil_dropped[t])
       /\ (pc[t] = "inuse_clear" \/ Completed(t)) => gil = t
  /\ cv_fn = "convert_column_to_pyobject" =>
       /\ cv_pc \in {"native", "allow_end"} => ~cv_gil
       /\ cv_pc \in {"col_switch", "col_build", "returned"} => cv_gil
       /\ \A c \in cv_native : c.via = "void" /\ ~c.gil
       /\ cv_result # PyNULL => cv_gil

\* convert_column_to_pyobject is inside the _PYSQLITE_CALL_V of
\* sqlite3_column_int64 with the GIL released, after it took the GIL back
\* from the call of sqlite3_column_type
C18_Witness ==
  /\ cv_fn = "convert_column_to_pyobject"
  /\ cv_pc = "native" /\ cv_acc = "sqlite3_column_int64" /\ ~cv_gil
  /\ cv_native = {[fn |-> "sqlite3_column_type", via |-> "void",
                   guarded |-> FALSE, gil |-> FALSE]}

====
